---- MODULE Spec2Model ----
(***************************************************************************)
(* Book-swap backend: the swap lifecycle (src/routes/swaps.js,             *)
(* src/models/Swap.js), the book directory (src/routes/books.js, Book      *)
(* model) and the review/rating engine (routes/reviews, src/models/        *)
(* Review.js), modelled as a state machine over the stored documents.      *)
(*                                                                         *)
(* Ids are small integers; a swap's or review's id is its index in the     *)
(* collection.  Ratings of users are kept in tenths (40 stands for 4.0).   *)
(* Time is a counter of ticks; ExpiryTicks ticks stand for the 7 days of   *)
(* the expiresAt default.                                                  *)
(***************************************************************************)
EXTENDS Integers, Sequences, FiniteSets, TLC

VARIABLES books, users, swaps, reviews, now, inflight, last, db, mail

vars == <<books, users, swaps, reviews, now, inflight, last, db, mail>>

(***************************************************************************)
(* Bounds of the model.                                                    *)
(***************************************************************************)
MaxSwaps == 2
MaxReviews == 2
MaxTime == 2
MaxInFlight == 2
MaxRated == 4
MaxCallers == 3
MaxMails == 3

(***************************************************************************)
(* The population: two ordinary users and an admin; one book of each       *)
(* ordinary user and one anonymous listing (a book without owner).         *)
(***************************************************************************)
NoUser == 0
InitRole == << "user", "user", "admin" >>
InitOwner == << 1, 2, NoUser >>

(***************************************************************************)
(* Program constants.                                                      *)
(***************************************************************************)
ExpiryTicks == 1
MinRating == 1
MaxRating == 5

Users == DOMAIN InitRole
Books == DOMAIN InitOwner
BookIds == {0} \cup Books
SwapIds == 1..MaxSwaps
ReviewIds == 1..MaxReviews
Slots == 1..MaxInFlight
NoDate == -1

Statuses == {"pending", "accepted", "declined", "completed", "cancelled"}
TerminalStatuses == {"declined", "completed", "cancelled"}
LiveStatuses == {"pending", "accepted"}

Idle == [op |-> "idle"]

(* What a handler answers: the HTTP status and the message of the body. *)
Response(code, message) == [code |-> code, message |-> message]

(* The last request that wrote to the store: which, by whom, on which    *)
(* document, and the status that document had when the request read it.  *)
Served(op, user, id, from) == [op |-> op, user |-> user, id |-> id, from |-> from]

(***************************************************************************)
(* Documents as the schemas create them.                                   *)
(***************************************************************************)
NewBook(ownerId) ==
    [owner |-> ownerId, isAvailable |-> TRUE, isActive |-> TRUE, swapCount |-> 0]

NewUser(role) ==
    [role |-> role, totalSwaps |-> 0, rating |-> 0, totalRatings |-> 0]

(* Variant: the caller is stored as the owner as well. *)
NewSwapOwnedByRequester(requester, owner, requestedBook, offeredBook, createdAt) ==
    [requester |-> requester, owner |-> requester,
     requestedBook |-> requestedBook, offeredBook |-> offeredBook,
     status |-> "pending", completedAt |-> NoDate,
     expiresAt |-> createdAt + ExpiryTicks]

NewSwap(requester, owner, requestedBook, offeredBook, createdAt) ==
    [requester |-> requester, owner |-> owner,
     requestedBook |-> requestedBook, offeredBook |-> offeredBook,
     status |-> "pending", completedAt |-> NoDate,
     expiresAt |-> createdAt + ExpiryTicks]

(***************************************************************************)
(* Swap model methods.                                                     *)
(***************************************************************************)
isExpired(doc, t) == doc.expiresAt < t /\ doc.status = "pending"

canModify(doc, userId) == doc.requester = userId \/ doc.owner = userId

(* Variant: either party passes for the owner. *)
isOwnerOrRequester(doc, userId) == doc.owner = userId \/ doc.requester = userId

isOwner(doc, userId) == doc.owner = userId

isRequester(doc, userId) == doc.requester = userId

accept(doc) == [doc EXCEPT !.status = "accepted"]

decline(doc) == [doc EXCEPT !.status = "declined"]

complete(doc, t) == [doc EXCEPT !.status = "completed", !.completedAt = t]

cancel(doc) == [doc EXCEPT !.status = "cancelled"]

(***************************************************************************)
(* Book model methods.  canEdit dereferences owner: it throws for a book   *)
(* without owner.                                                          *)
(***************************************************************************)
canEditThrows(book) == book.owner = NoUser

canEdit(book, userId) == book.owner = userId

(***************************************************************************)
(* pre('save') hook of the swap: the writes it issues, in order, for a     *)
(* document whose status was modified.                                     *)
(***************************************************************************)
Write(coll, id, update) == [coll |-> coll, id |-> id, update |-> update]

(* Variant: accepting marks only the requested book. *)
PreSaveWritesOneBook(doc, statusModified) ==
    IF ~statusModified THEN << >>
    ELSE IF doc.status = "accepted" THEN
        << Write("Book", doc.requestedBook, "unavailable") >>
    ELSE IF doc.status = "completed" THEN
        << Write("Book", doc.requestedBook, "incSwapCount"),
           Write("Book", doc.offeredBook, "incSwapCount"),
           Write("User", doc.requester, "incTotalSwaps"),
           Write("User", doc.owner, "incTotalSwaps") >>
    ELSE IF doc.status \in {"declined", "cancelled"} THEN
        << Write("Book", doc.requestedBook, "available"),
           Write("Book", doc.offeredBook, "available") >>
    ELSE << >>

(* Variant: only a declined swap releases its books. *)
PreSaveWritesDeclinedOnly(doc, statusModified) ==
    IF ~statusModified THEN << >>
    ELSE IF doc.status = "accepted" THEN
        << Write("Book", doc.requestedBook, "unavailable"),
           Write("Book", doc.offeredBook, "unavailable") >>
    ELSE IF doc.status = "completed" THEN
        << Write("Book", doc.requestedBook, "incSwapCount"),
           Write("Book", doc.offeredBook, "incSwapCount"),
           Write("User", doc.requester, "incTotalSwaps"),
           Write("User", doc.owner, "incTotalSwaps") >>
    ELSE IF doc.status = "declined" THEN
        << Write("Book", doc.requestedBook, "available"),
           Write("Book", doc.offeredBook, "available") >>
    ELSE << >>

PreSaveWrites(doc, statusModified) ==
    IF ~statusModified THEN << >>
    ELSE IF doc.status = "accepted" THEN
        << Write("Book", doc.requestedBook, "unavailable"),
           Write("Book", doc.offeredBook, "unavailable") >>
    ELSE IF doc.status = "completed" THEN
        << Write("Book", doc.requestedBook, "incSwapCount"),
           Write("Book", doc.offeredBook, "incSwapCount"),
           Write("User", doc.requester, "incTotalSwaps"),
           Write("User", doc.owner, "incTotalSwaps") >>
    ELSE IF doc.status \in {"declined", "cancelled"} THEN
        << Write("Book", doc.requestedBook, "available"),
           Write("Book", doc.offeredBook, "available") >>
    ELSE << >>

(* Book.findByIdAndUpdate / User.findByIdAndUpdate: one atomic document write. *)
(* Variant: counting a swap also releases the book. *)
BookFindByIdAndUpdateReleasing(bk, w) ==
    IF w.coll # "Book" \/ w.id \notin DOMAIN bk THEN bk
    ELSE IF w.update = "unavailable" THEN [bk EXCEPT ![w.id].isAvailable = FALSE]
    ELSE IF w.update = "available" THEN [bk EXCEPT ![w.id].isAvailable = TRUE]
    ELSE IF w.update = "incSwapCount"
        THEN [bk EXCEPT ![w.id].swapCount = @ + 1, ![w.id].isAvailable = TRUE]
    ELSE bk

BookFindByIdAndUpdate(bk, w) ==
    IF w.coll # "Book" \/ w.id \notin DOMAIN bk THEN bk
    ELSE IF w.update = "unavailable" THEN [bk EXCEPT ![w.id].isAvailable = FALSE]
    ELSE IF w.update = "available" THEN [bk EXCEPT ![w.id].isAvailable = TRUE]
    ELSE IF w.update = "incSwapCount" THEN [bk EXCEPT ![w.id].swapCount = @ + 1]
    ELSE bk

(* Variant: the increment is applied to every user. *)
UserFindByIdAndUpdateAll(us, w) ==
    IF w.coll # "User" \/ w.id \notin DOMAIN us THEN us
    ELSE IF w.update = "incTotalSwaps"
        THEN [x \in DOMAIN us |-> [us[x] EXCEPT !.totalSwaps = @ + 1]]
    ELSE us

UserFindByIdAndUpdate(us, w) ==
    IF w.coll # "User" \/ w.id \notin DOMAIN us THEN us
    ELSE IF w.update = "incTotalSwaps" THEN [us EXCEPT ![w.id].totalSwaps = @ + 1]
    ELSE us

RECURSIVE ApplyBookWrites(_, _, _)
ApplyBookWrites(bk, ws, k) ==
    IF k > Len(ws) THEN bk
    ELSE ApplyBookWrites(BookFindByIdAndUpdate(bk, ws[k]), ws, k + 1)

RECURSIVE ApplyUserWrites(_, _, _)
ApplyUserWrites(us, ws, k) ==
    IF k > Len(ws) THEN us
    ELSE ApplyUserWrites(UserFindByIdAndUpdate(us, ws[k]), ws, k + 1)

(* doc.save() of a loaded swap: $set of the paths the model method       *)
(* modified, status for every method and completedAt for complete() only; *)
(* the other paths of the stored document stay as they are, and no        *)
(* version check compares the stored document to the one that was loaded. *)
SaveSwap(stored, doc) ==
    [stored EXCEPT !.status = doc.status,
                   !.completedAt = IF doc.status = "completed" THEN doc.completedAt ELSE @]

(***************************************************************************)
(* utils/db: isConnected (0 = disconnected, 1 = connecting, 2 = connected), *)
(* mongoose.connection.readyState (0 = disconnected, 1 = connected,        *)
(* 2 = connecting) and the position of every call of dbConnect.  The       *)
(* requests below run on an open connection and leave db alone.            *)
(***************************************************************************)
DbCallers == 1..MaxCallers

Disconnected ==
    [isConnected |-> 0, readyState |-> 0, url |-> TRUE,
     call |-> [c \in DbCallers |-> "idle"]]

(***************************************************************************)
(* Initial state: registered users, listed books (one of them an anonymous *)
(* listing), no swaps, no reviews.                                         *)
(***************************************************************************)
Init ==
    /\ books = [b \in Books |-> NewBook(InitOwner[b])]
    /\ users = [u \in Users |-> NewUser(InitRole[u])]
    /\ swaps = << >>
    /\ reviews = << >>
    /\ now = 0
    /\ inflight = [r \in Slots |-> Idle]
    /\ db = Disconnected
    /\ mail = << >>
    /\ last = Served("none", NoUser, 0, "")

Quiescent == \A r \in Slots : inflight[r] = Idle

(***************************************************************************)
(* POST /api/swaps                                                         *)
(***************************************************************************)
ExistingSwap(u, rb, ob) ==
    \E s \in 1..Len(swaps) :
        /\ swaps[s].requester = u
        /\ swaps[s].requestedBook = rb
        /\ swaps[s].offeredBook = ob
        /\ swaps[s].status = "pending"

(* Variant: the book tests without isActive. *)
CreateOutcomeIgnoringInactive(u, rb, ob) ==
    IF rb \notin Books \/ ~books[rb].isAvailable
        THEN Response(400, "Requested book is not available")
    ELSE IF ob \notin Books \/ ~books[ob].isAvailable
        THEN Response(400, "Offered book is not available")
    ELSE IF canEditThrows(books[ob])
        THEN Response(500, "Server error")
    ELSE IF ~canEdit(books[ob], u)
        THEN Response(403, "You can only offer books you own")
    ELSE IF canEditThrows(books[rb])
        THEN Response(500, "Server error")
    ELSE IF canEdit(books[rb], u)
        THEN Response(400, "You cannot request your own book")
    ELSE IF ExistingSwap(u, rb, ob)
        THEN Response(400, "You already have a pending swap request for these books")
    ELSE Response(201, "Swap request sent successfully")

CreateOutcome(u, rb, ob) ==
    IF rb \notin Books \/ ~books[rb].isActive \/ ~books[rb].isAvailable
        THEN Response(400, "Requested book is not available")
    ELSE IF ob \notin Books \/ ~books[ob].isActive \/ ~books[ob].isAvailable
        THEN Response(400, "Offered book is not available")
    ELSE IF canEditThrows(books[ob])
        THEN Response(500, "Server error")
    ELSE IF ~canEdit(books[ob], u)
        THEN Response(403, "You can only offer books you own")
    ELSE IF canEditThrows(books[rb])
        THEN Response(500, "Server error")
    ELSE IF canEdit(books[rb], u)
        THEN Response(400, "You cannot request your own book")
    ELSE IF ExistingSwap(u, rb, ob)
        THEN Response(400, "You already have a pending swap request for these books")
    ELSE Response(201, "Swap request sent successfully")

CreateSwap(u, rb, ob) ==
    /\ LET out == CreateOutcome(u, rb, ob) IN
        /\ out.code = 201
        /\ Len(swaps) < MaxSwaps
        /\ swaps' = Append(swaps, NewSwap(u, books[rb].owner, rb, ob, now))
        /\ last' = Served("create", u, Len(swaps) + 1, "")
    /\ UNCHANGED <<books, users, reviews, now, inflight, db, mail>>

CreateSwapRejected(u, rb, ob) ==
    /\ LET out == CreateOutcome(u, rb, ob) IN
        /\ out.code # 201
    /\ UNCHANGED vars

(***************************************************************************)
(* PUT /api/swaps/:id/accept | decline | complete | cancel                 *)
(* TransitionOutcome is the handler up to its call of the model method:    *)
(* findById, the actor test, the status test and (accept) the expiry test. *)
(***************************************************************************)
SwapOps == {"accept", "decline", "complete", "cancel"}

(* Variant: accept without the expiry test. *)
AcceptOutcomeIgnoringExpiry(swap, u, t) ==
    IF ~isOwner(swap, u)
        THEN Response(403, "Only the book owner can accept swap requests")
    ELSE IF swap.status # "pending"
        THEN Response(400, "This swap request is no longer pending")
    ELSE Response(200, "Swap request accepted successfully")

AcceptOutcome(swap, u, t) ==
    IF ~isOwner(swap, u)
        THEN Response(403, "Only the book owner can accept swap requests")
    ELSE IF swap.status # "pending"
        THEN Response(400, "This swap request is no longer pending")
    ELSE IF isExpired(swap, t)
        THEN Response(400, "This swap request has expired")
    ELSE Response(200, "Swap request accepted successfully")

DeclineOutcome(swap, u) ==
    IF ~isOwner(swap, u)
        THEN Response(403, "Only the book owner can decline swap requests")
    ELSE IF swap.status # "pending"
        THEN Response(400, "This swap request is no longer pending")
    ELSE Response(200, "Swap request declined")

(* Variant: complete without the status test. *)
CompleteOutcomeAnyStatus(swap, u) ==
    IF ~canModify(swap, u)
        THEN Response(403, "Not authorized to complete this swap")
    ELSE Response(200, "Swap marked as completed")

CompleteOutcome(swap, u) ==
    IF ~canModify(swap, u)
        THEN Response(403, "Not authorized to complete this swap")
    ELSE IF swap.status # "accepted"
        THEN Response(400, "Only accepted swaps can be completed")
    ELSE Response(200, "Swap marked as completed")

(* Variant: cancel without the status test. *)
CancelOutcomeAnyStatus(swap, u) ==
    IF ~isRequester(swap, u)
        THEN Response(403, "Only the requester can cancel swap requests")
    ELSE Response(200, "Swap request cancelled")

CancelOutcome(swap, u) ==
    IF ~isRequester(swap, u)
        THEN Response(403, "Only the requester can cancel swap requests")
    ELSE IF swap.status \notin {"pending", "accepted"}
        THEN Response(400, "This swap cannot be cancelled")
    ELSE Response(200, "Swap request cancelled")

TransitionOutcome(op, u, id) ==
    IF id \notin 1..Len(swaps) THEN Response(404, "Swap not found")
    ELSE IF op = "accept" THEN AcceptOutcome(swaps[id], u, now)
    ELSE IF op = "decline" THEN DeclineOutcome(swaps[id], u)
    ELSE IF op = "complete" THEN CompleteOutcome(swaps[id], u)
    ELSE CancelOutcome(swaps[id], u)

(* The model method the handler calls on the loaded document. *)
Mutate(op, doc, t) ==
    IF op = "accept" THEN accept(doc)
    ELSE IF op = "decline" THEN decline(doc)
    ELSE IF op = "complete" THEN complete(doc, t)
    ELSE cancel(doc)

(* A whole transition request served alone: hook writes, then the swap write. *)
Transition(op, u, id) ==
    /\ LET out == TransitionOutcome(op, u, id) IN
        /\ out.code = 200
        /\ LET doc == Mutate(op, swaps[id], now)
               ws == PreSaveWrites(doc, doc.status # swaps[id].status)
           IN /\ books' = ApplyBookWrites(books, ws, 1)
              /\ users' = ApplyUserWrites(users, ws, 1)
              /\ swaps' = [swaps EXCEPT ![id] = SaveSwap(@, doc)]
        /\ last' = Served(op, u, id, swaps[id].status)
    /\ UNCHANGED <<reviews, now, inflight, db, mail>>

TransitionRejected(op, u, id) ==
    /\ LET out == TransitionOutcome(op, u, id) IN
        /\ out.code # 200
    /\ UNCHANGED vars

Accept(u, id) == Transition("accept", u, id)
Decline(u, id) == Transition("decline", u, id)
Complete(u, id) == Transition("complete", u, id)
Cancel(u, id) == Transition("cancel", u, id)

(***************************************************************************)
(* PUT /api/books/:id : the owner's update; isAvailable is one of the      *)
(* body fields it copies onto the book.                                    *)
(***************************************************************************)
UpdateBook(u, b, avail) ==
    /\ b \in Books
    /\ ~canEditThrows(books[b])
    /\ canEdit(books[b], u)
    /\ books' = [books EXCEPT ![b].isAvailable = avail]
    /\ last' = Served("updateBook", u, b, "")
    /\ UNCHANGED <<users, swaps, reviews, now, inflight, db, mail>>

(***************************************************************************)
(* DELETE /api/books/:id : the owner's soft delete.  The handler does not  *)
(* look at the swaps that reference the book.                              *)
(***************************************************************************)
DeleteBookOutcome(u, b) ==
    IF b \notin Books THEN Response(404, "Book not found")
    ELSE IF canEditThrows(books[b]) THEN Response(500, "Server error while deleting book")
    ELSE IF ~canEdit(books[b], u) THEN Response(403, "Not authorized to delete this book")
    ELSE Response(200, "Book deleted successfully")

DeleteBook(u, b) ==
    /\ DeleteBookOutcome(u, b).code = 200
    /\ books' = [books EXCEPT ![b].isActive = FALSE]
    /\ last' = Served("deleteBook", u, b, "")
    /\ UNCHANGED <<users, swaps, reviews, now, inflight, db, mail>>

(***************************************************************************)
(* Passage of time.                                                        *)
(***************************************************************************)
Tick ==
    /\ now < MaxTime
    /\ now' = now + 1
    /\ UNCHANGED <<books, users, swaps, reviews, inflight, last, db, mail>>

Next ==
    \/ \E u \in Users, rb \in BookIds, ob \in BookIds : CreateSwap(u, rb, ob)
    \/ \E u \in Users, rb \in BookIds, ob \in BookIds : CreateSwapRejected(u, rb, ob)
    \/ \E u \in Users, id \in SwapIds : Accept(u, id)
    \/ \E u \in Users, id \in SwapIds : Decline(u, id)
    \/ \E u \in Users, id \in SwapIds : Complete(u, id)
    \/ \E u \in Users, id \in SwapIds : Cancel(u, id)
    \/ \E op \in SwapOps, u \in Users, id \in SwapIds : TransitionRejected(op, u, id)
    \/ \E u \in Users, b \in Books, avail \in BOOLEAN : UpdateBook(u, b, avail)

(* The swap engine and the book directory, one request at a time. *)
Spec == Init /\ [][Next]_vars

(* The book directory and the creation of swaps: books are made            *)
(* unavailable by an accept or by their owner, inactive by a delete.       *)
NextDirectory ==
    \/ \E u \in Users, rb \in BookIds, ob \in BookIds : CreateSwap(u, rb, ob)
    \/ \E u \in Users, rb \in BookIds, ob \in BookIds : CreateSwapRejected(u, rb, ob)
    \/ \E u \in Users, id \in SwapIds : Accept(u, id)
    \/ \E u \in Users, b \in Books, avail \in BOOLEAN : UpdateBook(u, b, avail)
    \/ \E u \in Users, b \in BookIds : DeleteBook(u, b)

SpecDirectory == Init /\ [][NextDirectory]_vars

(* The requests on swaps with the clock running. *)
NextClock ==
    \/ \E u \in Users, rb \in BookIds, ob \in BookIds : CreateSwap(u, rb, ob)
    \/ \E u \in Users, id \in SwapIds : Accept(u, id)
    \/ \E u \in Users, id \in SwapIds : Decline(u, id)
    \/ \E u \in Users, id \in SwapIds : Complete(u, id)
    \/ \E u \in Users, id \in SwapIds : Cancel(u, id)
    \/ \E op \in SwapOps, u \in Users, id \in SwapIds : TransitionRejected(op, u, id)
    \/ Tick

SpecClock == Init /\ [][NextClock]_vars

(***************************************************************************)
(* Review model.  calculateUserRating: the $match / $group aggregation and *)
(* Math.round(avg * 10) / 10, here in tenths: Math.round takes the nearest *)
(* integer and rounds a half up.                                           *)
(***************************************************************************)
Ratings == MinRating..MaxRating
NoRating == 0

NewReview(reviewer, reviewee, swap, rating) ==
    [reviewer |-> reviewer, reviewee |-> reviewee, swap |-> swap,
     rating |-> rating, isActive |-> TRUE]

Matched(revs, userId) ==
    {i \in 1..Len(revs) : revs[i].reviewee = userId /\ revs[i].isActive}

RECURSIVE SumRatings(_, _)
SumRatings(revs, ids) ==
    IF ids = {} THEN 0
    ELSE LET i == CHOOSE x \in ids : TRUE
         IN revs[i].rating + SumRatings(revs, ids \ {i})

(* Variant: a half is rounded down. *)
MathRoundHalfDown(num, den) == (2 * num + den - 1) \div (2 * den)

MathRound(num, den) == (2 * num + den) \div (2 * den)

calculateUserRating(revs, userId) ==
    LET ids == Matched(revs, userId) IN
    IF ids # {}
        THEN [averageRating |-> MathRound(SumRatings(revs, ids) * 10, Cardinality(ids)),
              totalReviews |-> Cardinality(ids)]
        ELSE [averageRating |-> 0, totalReviews |-> 0]

(* Variant: the reviewee passes as well. *)
reviewCanEditByParty(review, userId) ==
    review.reviewer = userId \/ review.reviewee = userId

reviewCanEdit(review, userId) == review.reviewer = userId

(* Variant: the hook stores the number of reviews and not their mean. *)
PostSaveCountOnly(us, revs, doc, ratingModified, isNew) ==
    IF ratingModified \/ isNew
        THEN LET ratingData == calculateUserRating(revs, doc.reviewee) IN
             IF doc.reviewee \in DOMAIN us
                 THEN [us EXCEPT ![doc.reviewee].totalRatings = ratingData.totalReviews]
                 ELSE us
        ELSE us

(* post('save') hook of the review: the user document after the hook. *)
PostSave(us, revs, doc, ratingModified, isNew) ==
    IF ratingModified \/ isNew
        THEN LET ratingData == calculateUserRating(revs, doc.reviewee) IN
             IF doc.reviewee \in DOMAIN us
                 THEN [us EXCEPT ![doc.reviewee].rating = ratingData.averageRating,
                                 ![doc.reviewee].totalRatings = ratingData.totalReviews]
                 ELSE us
        ELSE us

(***************************************************************************)
(* POST /api/reviews                                                       *)
(***************************************************************************)
(* Variant: the query finds active reviews only. *)
ExistingActiveReview(u, revieweeId, swapId) ==
    \E i \in 1..Len(reviews) :
        /\ reviews[i].reviewer = u
        /\ reviews[i].reviewee = revieweeId
        /\ reviews[i].swap = swapId
        /\ reviews[i].isActive

ExistingReview(u, revieweeId, swapId) ==
    \E i \in 1..Len(reviews) :
        /\ reviews[i].reviewer = u
        /\ reviews[i].reviewee = revieweeId
        /\ reviews[i].swap = swapId

isValidReviewee(swap, u, revieweeId) ==
    \/ swap.requester = revieweeId /\ swap.owner = u
    \/ swap.owner = revieweeId /\ swap.requester = u

(* Variant: the review of a swap in any status. *)
CreateReviewOutcomeAnyStatus(u, swapId, revieweeId) ==
    IF swapId \notin 1..Len(swaps) THEN Response(404, "Swap not found")
    ELSE IF ~canModify(swaps[swapId], u)
        THEN Response(403, "Not authorized to review this swap")
    ELSE IF ~isValidReviewee(swaps[swapId], u, revieweeId)
        THEN Response(400, "Invalid reviewee for this swap")
    ELSE IF ExistingReview(u, revieweeId, swapId)
        THEN Response(400, "You have already reviewed this swap")
    ELSE Response(201, "Review created successfully")

CreateReviewOutcome(u, swapId, revieweeId) ==
    IF swapId \notin 1..Len(swaps) THEN Response(404, "Swap not found")
    ELSE IF swaps[swapId].status # "completed"
        THEN Response(400, "Can only review completed swaps")
    ELSE IF ~canModify(swaps[swapId], u)
        THEN Response(403, "Not authorized to review this swap")
    ELSE IF ~isValidReviewee(swaps[swapId], u, revieweeId)
        THEN Response(400, "Invalid reviewee for this swap")
    ELSE IF ExistingReview(u, revieweeId, swapId)
        THEN Response(400, "You have already reviewed this swap")
    ELSE Response(201, "Review created successfully")

CreateReview(u, swapId, revieweeId, rating) ==
    /\ CreateReviewOutcome(u, swapId, revieweeId).code = 201
    /\ Len(reviews) < MaxReviews
    /\ LET doc == NewReview(u, revieweeId, swapId, rating)
           saved == Append(reviews, doc)
       IN /\ reviews' = saved
          /\ users' = PostSave(users, saved, doc, TRUE, TRUE)
    /\ last' = Served("createReview", u, Len(reviews) + 1, "")
    /\ UNCHANGED <<books, swaps, now, inflight, db, mail>>

CreateReviewRejected(u, swapId, revieweeId) ==
    /\ CreateReviewOutcome(u, swapId, revieweeId).code # 201
    /\ UNCHANGED vars

(***************************************************************************)
(* PUT /api/reviews/:id                                                    *)
(***************************************************************************)
UpdateReviewOutcome(u, id) ==
    IF id \notin 1..Len(reviews) \/ ~reviews[id].isActive
        THEN Response(404, "Review not found")
    ELSE IF ~reviewCanEdit(reviews[id], u)
        THEN Response(403, "Not authorized to edit this review")
    ELSE Response(200, "Review updated successfully")

UpdateReview(u, id, rating) ==
    /\ UpdateReviewOutcome(u, id).code = 200
    /\ LET doc == IF rating # NoRating THEN [reviews[id] EXCEPT !.rating = rating]
                  ELSE reviews[id]
           saved == [reviews EXCEPT ![id] = doc]
       IN /\ reviews' = saved
          /\ users' = PostSave(users, saved, doc, doc.rating # reviews[id].rating, FALSE)
    /\ last' = Served("updateReview", u, id, "")
    /\ UNCHANGED <<books, swaps, now, inflight, db, mail>>

(***************************************************************************)
(* DELETE /api/reviews/:id and DELETE /api/admin/reviews/:id (soft delete) *)
(***************************************************************************)
DeleteReviewOutcome(u, id) ==
    IF id \notin 1..Len(reviews) \/ ~reviews[id].isActive
        THEN Response(404, "Review not found")
    ELSE IF ~reviewCanEdit(reviews[id], u) /\ users[u].role # "admin"
        THEN Response(403, "Not authorized to delete this review")
    ELSE Response(200, "Review deleted successfully")

AdminDeleteReviewOutcome(u, id) ==
    IF users[u].role # "admin"
        THEN Response(403, "Admin access required")
    ELSE IF id \notin 1..Len(reviews) \/ ~reviews[id].isActive
        THEN Response(404, "Review not found")
    ELSE Response(200, "Review deleted successfully")

SoftDelete(u, id, op) ==
    LET doc == [reviews[id] EXCEPT !.isActive = FALSE]
        saved == [reviews EXCEPT ![id] = doc]
    IN /\ reviews' = saved
       /\ users' = PostSave(users, saved, doc, FALSE, FALSE)
       /\ last' = Served(op, u, id, "")
       /\ UNCHANGED <<books, swaps, now, inflight, db, mail>>

DeleteReview(u, id) ==
    /\ DeleteReviewOutcome(u, id).code = 200
    /\ SoftDelete(u, id, "deleteReview")

AdminDeleteReview(u, id) ==
    /\ AdminDeleteReviewOutcome(u, id).code = 200
    /\ SoftDelete(u, id, "adminDeleteReview")

ReviewRejected(u, id) ==
    /\ \/ UpdateReviewOutcome(u, id).code # 200
       \/ DeleteReviewOutcome(u, id).code # 200
       \/ AdminDeleteReviewOutcome(u, id).code # 200
    /\ UNCHANGED vars

(***************************************************************************)
(* The review engine, one request at a time, from the state in which the   *)
(* two ordinary users have requested each other's book and both swaps have *)
(* been accepted: create(1, 2, 1), create(2, 1, 2), accept(2, 1),          *)
(* accept(1, 2).  The swaps get completed, and reviewed, from there.       *)
(***************************************************************************)
RatingInputs == {MinRating, MaxRating - 1, MaxRating}

AcceptedSwap(requester, owner, requestedBook, offeredBook) ==
    accept(NewSwap(requester, owner, requestedBook, offeredBook, 0))

InitReview ==
    /\ books = [b \in Books |->
            IF b \in {1, 2} THEN [NewBook(InitOwner[b]) EXCEPT !.isAvailable = FALSE]
            ELSE NewBook(InitOwner[b])]
    /\ users = [u \in Users |-> NewUser(InitRole[u])]
    /\ swaps = << AcceptedSwap(1, 2, 2, 1), AcceptedSwap(2, 1, 1, 2) >>
    /\ reviews = << >>
    /\ now = 0
    /\ inflight = [r \in Slots |-> Idle]
    /\ db = Disconnected
    /\ mail = << >>
    /\ last = Served("accept", 1, 2, "pending")

NextReview ==
    \/ \E u \in Users, id \in SwapIds : Complete(u, id)
    \/ \E u \in Users, id \in SwapIds, e \in Users, rating \in RatingInputs :
            CreateReview(u, id, e, rating)
    \/ \E u \in Users, id \in SwapIds, e \in Users : CreateReviewRejected(u, id, e)
    \/ \E u \in Users, id \in ReviewIds, rating \in RatingInputs \cup {NoRating} :
            UpdateReview(u, id, rating)
    \/ \E u \in Users, id \in ReviewIds : DeleteReview(u, id)
    \/ \E u \in Users, id \in ReviewIds : AdminDeleteReview(u, id)
    \/ \E u \in Users, id \in ReviewIds : ReviewRejected(u, id)

SpecReview == InitReview /\ [][NextReview]_vars

(* A swap from its request to its reviews: the requests that move a swap   *)
(* forward, one at a time, from the initial state.                         *)
NextScenario ==
    \/ \E u \in Users, rb \in BookIds, ob \in BookIds : CreateSwap(u, rb, ob)
    \/ \E u \in Users, id \in SwapIds : Accept(u, id)
    \/ \E u \in Users, id \in SwapIds : Complete(u, id)
    \/ \E u \in Users, id \in SwapIds, e \in Users, rating \in RatingInputs :
            CreateReview(u, id, e, rating)

SpecScenario == Init /\ [][NextScenario]_vars

(***************************************************************************)
(* GET /api/reviews/swap/:swapId/eligible                                  *)
(***************************************************************************)
otherPartyId(swap, u) == IF swap.requester = u THEN swap.owner ELSE swap.requester

NotEligible(reason) == [code |-> 200, canReview |-> FALSE, reason |-> reason]

(* Variant: a soft-deleted review does not count as a review of the swap. *)
EligibleOutcomeActiveOnly(u, swapId) ==
    IF swapId \notin 1..Len(swaps) THEN Response(404, "Swap not found")
    ELSE IF swaps[swapId].status # "completed" THEN NotEligible("Swap not completed")
    ELSE IF ~canModify(swaps[swapId], u) THEN NotEligible("Not involved in swap")
    ELSE IF \E i \in 1..Len(reviews) :
                /\ reviews[i].reviewer = u
                /\ reviews[i].reviewee = otherPartyId(swaps[swapId], u)
                /\ reviews[i].swap = swapId
                /\ reviews[i].isActive
        THEN NotEligible("Already reviewed")
    ELSE [code |-> 200, canReview |-> TRUE,
          revieweeId |-> otherPartyId(swaps[swapId], u)]

EligibleOutcome(u, swapId) ==
    IF swapId \notin 1..Len(swaps) THEN Response(404, "Swap not found")
    ELSE IF swaps[swapId].status # "completed" THEN NotEligible("Swap not completed")
    ELSE IF ~canModify(swaps[swapId], u) THEN NotEligible("Not involved in swap")
    ELSE IF ExistingReview(u, otherPartyId(swaps[swapId], u), swapId)
        THEN NotEligible("Already reviewed")
    ELSE [code |-> 200, canReview |-> TRUE,
          revieweeId |-> otherPartyId(swaps[swapId], u)]

Answered(u, swapId, data) ==
    [op |-> "eligible", user |-> u, id |-> swapId, from |-> "", data |-> data]

CheckEligible(u, swapId) ==
    /\ last' = Answered(u, swapId, EligibleOutcome(u, swapId))
    /\ UNCHANGED <<books, users, swaps, reviews, now, inflight, db, mail>>

(* The eligibility check among the requests that change its answer. *)
NextEligible ==
    \/ \E u \in Users, id \in SwapIds : Complete(u, id)
    \/ \E u \in Users, id \in SwapIds, e \in Users :
            CreateReview(u, id, e, MaxRating)
    \/ \E u \in Users, id \in ReviewIds : DeleteReview(u, id)
    \/ \E u \in Users, id \in {0} \cup SwapIds : CheckEligible(u, id)

SpecEligible == InitReview /\ [][NextEligible]_vars

(***************************************************************************)
(* The transition handlers step by step, several requests at a time.  A   *)
(* request reads the swap and runs its checks (BeginTransition), then      *)
(* save() runs the pre-save hook, one findByIdAndUpdate per step           *)
(* (HookWrite), and only then writes the swap itself (PersistSwap).        *)
(***************************************************************************)
Running(op, u, id, doc, from) ==
    [op |-> op, user |-> u, id |-> id, doc |-> doc, from |-> from, pc |-> 1]

PendingWrites(req) == PreSaveWrites(req.doc, req.doc.status # req.from)

BeginTransition(r, op, u, id) ==
    /\ inflight[r] = Idle
    /\ TransitionOutcome(op, u, id).code = 200
    /\ inflight' = [inflight EXCEPT
            ![r] = Running(op, u, id, Mutate(op, swaps[id], now), swaps[id].status)]
    /\ UNCHANGED <<books, users, swaps, reviews, now, last, db, mail>>

HookWrite(r) ==
    /\ inflight[r] # Idle
    /\ inflight[r].pc <= Len(PendingWrites(inflight[r]))
    /\ LET w == PendingWrites(inflight[r])[inflight[r].pc] IN
        /\ books' = BookFindByIdAndUpdate(books, w)
        /\ users' = UserFindByIdAndUpdate(users, w)
    /\ inflight' = [inflight EXCEPT ![r].pc = @ + 1]
    /\ UNCHANGED <<swaps, reviews, now, last, db, mail>>

(* A save() that wrote the swap only if its stored status were still the  *)
(* one the request read.                                                   *)
PersistSwapIfUnchanged(r) ==
    /\ inflight[r] # Idle
    /\ inflight[r].pc > Len(PendingWrites(inflight[r]))
    /\ LET req == inflight[r] IN
        /\ swaps' = [swaps EXCEPT ![req.id] =
                IF @.status = req.from THEN SaveSwap(@, req.doc) ELSE @]
        /\ last' = Served(req.op, req.user, req.id, req.from)
    /\ inflight' = [inflight EXCEPT ![r] = Idle]
    /\ UNCHANGED <<books, users, reviews, now, db, mail>>

PersistSwap(r) ==
    /\ inflight[r] # Idle
    /\ inflight[r].pc > Len(PendingWrites(inflight[r]))
    /\ LET req == inflight[r] IN
        /\ swaps' = [swaps EXCEPT ![req.id] = SaveSwap(@, req.doc)]
        /\ last' = Served(req.op, req.user, req.id, req.from)
    /\ inflight' = [inflight EXCEPT ![r] = Idle]
    /\ UNCHANGED <<books, users, reviews, now, db, mail>>

(* Rejected requests write nothing and are left out here. *)
NextConcurrent ==
    \/ \E u \in Users, rb \in BookIds, ob \in BookIds : CreateSwap(u, rb, ob)
    \/ \E r \in Slots, op \in SwapOps, u \in Users, id \in SwapIds :
            BeginTransition(r, op, u, id)
    \/ \E r \in Slots : HookWrite(r)
    \/ \E r \in Slots : PersistSwap(r)

SpecConcurrent == Init /\ [][NextConcurrent]_vars

(* Complete requests step by step, every other request served at once. *)
NextCompletes ==
    \/ \E u \in Users, rb \in BookIds, ob \in BookIds : CreateSwap(u, rb, ob)
    \/ \E u \in Users, id \in SwapIds : Accept(u, id)
    \/ \E u \in Users, id \in SwapIds : Decline(u, id)
    \/ \E u \in Users, id \in SwapIds : Cancel(u, id)
    \/ \E r \in Slots, u \in Users, id \in SwapIds : BeginTransition(r, "complete", u, id)
    \/ \E r \in Slots : HookWrite(r)
    \/ \E r \in Slots : PersistSwap(r)

SpecCompletes == Init /\ [][NextCompletes]_vars

(* The requests on one pending swap step by step, from the state after     *)
(* create(1, 2, 1): user 1 has requested book 2 of user 2 and offers       *)
(* book 1.  A request takes the first free slot.                           *)
InitPending ==
    /\ books = [b \in Books |-> NewBook(InitOwner[b])]
    /\ users = [u \in Users |-> NewUser(InitRole[u])]
    /\ swaps = << NewSwap(1, 2, 2, 1, 0) >>
    /\ reviews = << >>
    /\ now = 0
    /\ inflight = [r \in Slots |-> Idle]
    /\ db = Disconnected
    /\ mail = << >>
    /\ last = Served("create", 1, 1, "")

NextRace ==
    \/ \E r \in Slots, op \in SwapOps, u \in Users, id \in SwapIds :
            /\ \A q \in Slots : q < r => inflight[q] # Idle
            /\ BeginTransition(r, op, u, id)
    \/ \E r \in Slots : HookWrite(r)
    \/ \E r \in Slots : PersistSwap(r)

SpecRace == InitPending /\ [][NextRace]_vars

(* The same with reviews created, each at once, between the steps of the   *)
(* requests on the swap.                                                   *)
NextRaceReview ==
    \/ \E r \in Slots, op \in SwapOps, u \in Users, id \in SwapIds :
            /\ \A q \in Slots : q < r => inflight[q] # Idle
            /\ BeginTransition(r, op, u, id)
    \/ \E r \in Slots : HookWrite(r)
    \/ \E r \in Slots : PersistSwap(r)
    \/ \E u \in Users, id \in SwapIds, e \in Users : CreateReview(u, id, e, MaxRating)

SpecRaceReview == InitPending /\ [][NextRaceReview]_vars

(***************************************************************************)
(* Failures.  A findByIdAndUpdate of the hook that rejects makes the hook, *)
(* and so save() and the model method, reject: the handler's catch answers *)
(* 500 and the swap document is not written.  The writes the hook issued   *)
(* before stay as they are: nothing undoes them.                           *)
(***************************************************************************)
Failed(op, user, id, from) ==
    [op |-> op, user |-> user, id |-> id, from |-> from,
     error |-> Response(500, "Server error")]

(* Variant: the hook swallows the error and the save goes on. *)
HookWriteFailsSwallowed(r) ==
    /\ inflight[r] # Idle
    /\ inflight[r].pc <= Len(PendingWrites(inflight[r]))
    /\ LET req == inflight[r] IN
        /\ swaps' = [swaps EXCEPT ![req.id] = SaveSwap(@, req.doc)]
        /\ last' = Served(req.op, req.user, req.id, req.from)
    /\ inflight' = [inflight EXCEPT ![r] = Idle]
    /\ UNCHANGED <<books, users, reviews, now, db, mail>>

HookWriteFails(r) ==
    /\ inflight[r] # Idle
    /\ inflight[r].pc <= Len(PendingWrites(inflight[r]))
    /\ LET req == inflight[r] IN
        last' = Failed(req.op, req.user, req.id, req.from)
    /\ inflight' = [inflight EXCEPT ![r] = Idle]
    /\ UNCHANGED <<books, users, swaps, reviews, now, db, mail>>

(* The process stops while a request is being served. *)
Crash(r) ==
    /\ inflight[r] # Idle
    /\ inflight' = [inflight EXCEPT ![r] = Idle]
    /\ UNCHANGED <<books, users, swaps, reviews, now, last, db, mail>>

(* A complete that is retried after a failure counts again, without limit: *)
(* complete requests are taken while no failed complete has left a count   *)
(* behind, that is while every counter is the number of completed swaps of *)
(* its book or user.                                                       *)
CountersInBound ==
    /\ \A b \in Books :
        books[b].swapCount = Cardinality({s \in 1..Len(swaps) :
            swaps[s].status = "completed"
                /\ b \in {swaps[s].requestedBook, swaps[s].offeredBook}})
    /\ \A u \in Users :
        users[u].totalSwaps = Cardinality({s \in 1..Len(swaps) :
            swaps[s].status = "completed"
                /\ u \in {swaps[s].requester, swaps[s].owner}})

(* One transition request at a time, write by write; each write of the     *)
(* hook may fail and the process may stop between two writes.              *)
NextFailing ==
    \/ \E u \in Users, rb \in BookIds, ob \in BookIds : Quiescent /\ CreateSwap(u, rb, ob)
    \/ \E op \in SwapOps, u \in Users, id \in SwapIds :
            /\ Quiescent
            /\ op = "complete" => CountersInBound
            /\ BeginTransition(1, op, u, id)
    \/ HookWrite(1)
    \/ HookWriteFails(1)
    \/ PersistSwap(1)
    \/ Crash(1)

SpecFailing == Init /\ [][NextFailing]_vars

(***************************************************************************)
(* POST /api/reviews step by step: the handler's tests with findOne, then  *)
(* the insert of review.save(), on which the unique index over (reviewer,  *)
(* reviewee, swap) is enforced, then the post('save') hook: the aggregate  *)
(* over the reviews, then the write of the user.  A duplicate key makes    *)
(* save() reject and the handler's catch answers 500.                      *)
(***************************************************************************)
NoRatingData == [averageRating |-> 0, totalReviews |-> 0]

ReviewRunning(u, doc) ==
    [op |-> "createReview", user |-> u, doc |-> doc, pc |-> 1,
     ratingData |-> NoRatingData]

BeginCreateReview(r, u, swapId, revieweeId, rating) ==
    /\ inflight[r] = Idle
    /\ CreateReviewOutcome(u, swapId, revieweeId).code = 201
    /\ inflight' = [inflight EXCEPT
            ![r] = ReviewRunning(u, NewReview(u, revieweeId, swapId, rating))]
    /\ UNCHANGED <<books, users, swaps, reviews, now, last, db, mail>>

DuplicateKey(doc) ==
    \E i \in 1..Len(reviews) :
        /\ reviews[i].reviewer = doc.reviewer
        /\ reviews[i].reviewee = doc.reviewee
        /\ reviews[i].swap = doc.swap

(* Variant: the collection without the unique index. *)
InsertReviewWithoutIndex(r) ==
    /\ inflight[r] # Idle
    /\ inflight[r].pc = 1
    /\ Len(reviews) < MaxReviews
    /\ reviews' = Append(reviews, inflight[r].doc)
    /\ inflight' = [inflight EXCEPT ![r].pc = 2]
    /\ last' = Served("createReview", inflight[r].user, Len(reviews) + 1, "")
    /\ UNCHANGED <<books, users, swaps, now, db, mail>>

InsertReview(r) ==
    /\ inflight[r] # Idle
    /\ inflight[r].pc = 1
    /\ IF DuplicateKey(inflight[r].doc)
        THEN /\ inflight' = [inflight EXCEPT ![r] = Idle]
             /\ last' = Failed("createReview", inflight[r].user, 0, "")
             /\ UNCHANGED reviews
        ELSE /\ Len(reviews) < MaxReviews
             /\ reviews' = Append(reviews, inflight[r].doc)
             /\ inflight' = [inflight EXCEPT ![r].pc = 2]
             /\ last' = Served("createReview", inflight[r].user, Len(reviews) + 1, "")
    /\ UNCHANGED <<books, users, swaps, now, db, mail>>

AggregateRating(r) ==
    /\ inflight[r] # Idle
    /\ inflight[r].pc = 2
    /\ inflight' = [inflight EXCEPT
            ![r].ratingData = calculateUserRating(reviews, inflight[r].doc.reviewee),
            ![r].pc = 3]
    /\ UNCHANGED <<books, users, swaps, reviews, now, last, db, mail>>

WriteRating(r) ==
    /\ inflight[r] # Idle
    /\ inflight[r].pc = 3
    /\ LET req == inflight[r] IN
        users' = IF req.doc.reviewee \in DOMAIN users
                    THEN [users EXCEPT
                            ![req.doc.reviewee].rating = req.ratingData.averageRating,
                            ![req.doc.reviewee].totalRatings = req.ratingData.totalReviews]
                    ELSE users
    /\ inflight' = [inflight EXCEPT ![r] = Idle]
    /\ UNCHANGED <<books, swaps, reviews, now, last, db, mail>>

(* The state after the first swap of InitReview has been completed by its  *)
(* owner: complete(2, 1).                                                  *)
CompletedSwap(requester, owner, requestedBook, offeredBook) ==
    complete(AcceptedSwap(requester, owner, requestedBook, offeredBook), 0)

InitCompleted ==
    /\ books = [b \in Books |->
            IF b \in {1, 2}
                THEN [NewBook(InitOwner[b]) EXCEPT !.isAvailable = FALSE, !.swapCount = 1]
                ELSE NewBook(InitOwner[b])]
    /\ users = [u \in Users |->
            IF u \in {1, 2} THEN [NewUser(InitRole[u]) EXCEPT !.totalSwaps = 1]
            ELSE NewUser(InitRole[u])]
    /\ swaps = << CompletedSwap(1, 2, 2, 1), AcceptedSwap(2, 1, 1, 2) >>
    /\ reviews = << >>
    /\ now = 0
    /\ inflight = [r \in Slots |-> Idle]
    /\ db = Disconnected
    /\ mail = << >>
    /\ last = Served("complete", 2, 1, "accepted")

(* Review creation step by step on the completed swap.  A request takes    *)
(* the first free slot: which slot serves it is immaterial.                *)
NextReviewConcurrent ==
    \/ \E r \in Slots, u \in Users, id \in SwapIds, e \in Users,
          rating \in {MinRating, MaxRating} :
            /\ \A q \in Slots : q < r => inflight[q] # Idle
            /\ BeginCreateReview(r, u, id, e, rating)
    \/ \E r \in Slots : InsertReview(r)
    \/ \E r \in Slots : AggregateRating(r)
    \/ \E r \in Slots : WriteRating(r)

SpecReviewConcurrent == InitCompleted /\ [][NextReviewConcurrent]_vars

(* The same with the second swap completed on the way, so that one user    *)
(* gets reviews on two swaps from requests that run together.              *)
NextRatingRace ==
    \/ \E u \in Users, id \in SwapIds : Complete(u, id)
    \/ \E r \in Slots, u \in Users, id \in SwapIds, e \in Users,
          rating \in {MinRating, MaxRating} :
            /\ \A q \in Slots : q < r => inflight[q] # Idle
            /\ BeginCreateReview(r, u, id, e, rating)
    \/ \E r \in Slots : InsertReview(r)
    \/ \E r \in Slots : AggregateRating(r)
    \/ \E r \in Slots : WriteRating(r)

SpecRatingRace == InitCompleted /\ [][NextRatingRace]_vars

(***************************************************************************)
(* calculateUserRating on its own: the collection of reviews is any of up  *)
(* to MaxRated reviews of the two ordinary users, each by the other user   *)
(* on a swap of its own, active or soft-deleted; the function is applied   *)
(* for any user and its result kept in last.                               *)
(***************************************************************************)
Calculated(u, ratingData) ==
    [op |-> "calculateUserRating", user |-> u, id |-> 0, from |-> "",
     ratingData |-> ratingData]

InitRating ==
    /\ books = [b \in Books |-> NewBook(InitOwner[b])]
    /\ users = [u \in Users |-> NewUser(InitRole[u])]
    /\ swaps = << >>
    /\ \E n \in 0..MaxRated :
        \E e \in [1..n -> {1, 2}], rt \in [1..n -> RatingInputs], act \in [1..n -> BOOLEAN] :
            reviews = [i \in 1..n |->
                [NewReview(3 - e[i], e[i], i, rt[i]) EXCEPT !.isActive = act[i]]]
    /\ now = 0
    /\ inflight = [r \in Slots |-> Idle]
    /\ db = Disconnected
    /\ mail = << >>
    /\ last = Served("none", NoUser, 0, "")

CalculateUserRating(u) ==
    /\ last' = Calculated(u, calculateUserRating(reviews, u))
    /\ UNCHANGED <<books, users, swaps, reviews, now, inflight, db, mail>>

NextRating == \E u \in Users : CalculateUserRating(u)

SpecRating == InitRating /\ [][NextRating]_vars

(***************************************************************************)
(* dbConnect (utils/db), called by the serverless handler before every     *)
(* request.  A call runs to its first await in one step; mongoose.connect  *)
(* ends by opening the connection or by failing, and the caller that       *)
(* awaits it continues in a later step.  Whether the error of a failed     *)
(* attempt reaches the callers that wait on the connection's events is     *)
(* left open.                                                              *)
(***************************************************************************)
DbRunning == {"connecting", "opened", "failing", "waiting"}

(* Variant: a call connects whenever the state is not connected. *)
DbConnectAlways(c) ==
    /\ db.call[c] \notin DbRunning
    /\ db' = IF db.isConnected = 2
                THEN [db EXCEPT !.call[c] = "returned"]
             ELSE IF ~db.url
                THEN [db EXCEPT !.call[c] = "threw"]
             ELSE [db EXCEPT !.isConnected = 1, !.readyState = 2,
                             !.call[c] = "connecting"]
    /\ UNCHANGED <<books, users, swaps, reviews, now, inflight, last, mail>>

dbConnect(c) ==
    /\ db.call[c] \notin DbRunning
    /\ db' = IF db.isConnected = 2
                THEN [db EXCEPT !.call[c] = "returned"]
             ELSE IF ~db.url
                THEN [db EXCEPT !.call[c] = "threw"]
             ELSE IF db.isConnected = 1
                THEN IF db.readyState = 1
                        THEN [db EXCEPT !.call[c] = "returned"]
                        ELSE [db EXCEPT !.call[c] = "waiting"]
             ELSE [db EXCEPT !.isConnected = 1, !.readyState = 2,
                             !.call[c] = "connecting"]
    /\ UNCHANGED <<books, users, swaps, reviews, now, inflight, last, mail>>

(* mongoose.connect opens the connection: 'connected' is emitted. *)
ConnectionOpens ==
    /\ db.readyState = 2
    /\ db' = [db EXCEPT
            !.readyState = 1,
            !.call = [c \in DbCallers |->
                        IF db.call[c] = "waiting" THEN "returned"
                        ELSE IF db.call[c] = "connecting" THEN "opened"
                        ELSE db.call[c]]]
    /\ UNCHANGED <<books, users, swaps, reviews, now, inflight, last, mail>>

(* mongoose.connect fails: 'error' may be emitted to the waiting calls. *)
ConnectionFails ==
    /\ db.readyState = 2
    /\ \E emitted \in BOOLEAN :
        db' = [db EXCEPT
            !.readyState = 0,
            !.call = [c \in DbCallers |->
                        IF db.call[c] = "waiting" /\ emitted THEN "threw"
                        ELSE IF db.call[c] = "connecting" THEN "failing"
                        ELSE db.call[c]]]
    /\ UNCHANGED <<books, users, swaps, reviews, now, inflight, last, mail>>

(* The continuation of the call after await mongoose.connect(...). *)
ConnectResolves(c) ==
    /\ db.call[c] = "opened"
    /\ db' = [db EXCEPT !.isConnected = 2, !.call[c] = "returned"]
    /\ UNCHANGED <<books, users, swaps, reviews, now, inflight, last, mail>>

(* The catch of the call. *)
ConnectRejects(c) ==
    /\ db.call[c] = "failing"
    /\ db' = [db EXCEPT !.isConnected = 0, !.call[c] = "threw"]
    /\ UNCHANGED <<books, users, swaps, reviews, now, inflight, last, mail>>

InitDb ==
    /\ books = [b \in Books |-> NewBook(InitOwner[b])]
    /\ users = [u \in Users |-> NewUser(InitRole[u])]
    /\ swaps = << >>
    /\ reviews = << >>
    /\ now = 0
    /\ inflight = [r \in Slots |-> Idle]
    /\ last = Served("none", NoUser, 0, "")
    /\ \E url \in BOOLEAN : db = [Disconnected EXCEPT !.url = url]
    /\ mail = << >>

NextDb ==
    \/ \E c \in DbCallers : dbConnect(c)
    \/ ConnectionOpens
    \/ ConnectionFails
    \/ \E c \in DbCallers : ConnectResolves(c)
    \/ \E c \in DbCallers : ConnectRejects(c)

SpecDb == InitDb /\ [][NextDb]_vars

(***************************************************************************)
(* emailService.  mail is the record of the calls: which email, to whom,   *)
(* whether transporter.sendMail delivered it, what the call wrote to the   *)
(* console and how it ended (a returned value or a thrown error).          *)
(***************************************************************************)
EmailCall(kind, u, delivered, console, outcome) ==
    [kind |-> kind, to |-> u, delivered |-> delivered,
     console |-> console, outcome |-> outcome]

sendVerificationEmail(u, delivered) ==
    IF delivered THEN EmailCall("verification", u, TRUE, "log", "true")
    ELSE EmailCall("verification", u, FALSE, "error", "throw")

sendPasswordResetEmail(u, delivered) ==
    IF delivered THEN EmailCall("passwordReset", u, TRUE, "log", "true")
    ELSE EmailCall("passwordReset", u, FALSE, "error", "throw")

(* Variant: the welcome email rethrows as the other two do. *)
sendWelcomeEmailRethrows(u, delivered) ==
    IF delivered THEN EmailCall("welcome", u, TRUE, "log", "true")
    ELSE EmailCall("welcome", u, FALSE, "error", "throw")

sendWelcomeEmail(u, delivered) ==
    IF delivered THEN EmailCall("welcome", u, TRUE, "log", "true")
    ELSE EmailCall("welcome", u, FALSE, "error", "false")

SendVerificationEmail(u, delivered) ==
    /\ Len(mail) < MaxMails
    /\ mail' = Append(mail, sendVerificationEmail(u, delivered))
    /\ UNCHANGED <<books, users, swaps, reviews, now, inflight, last, db>>

SendPasswordResetEmail(u, delivered) ==
    /\ Len(mail) < MaxMails
    /\ mail' = Append(mail, sendPasswordResetEmail(u, delivered))
    /\ UNCHANGED <<books, users, swaps, reviews, now, inflight, last, db>>

SendWelcomeEmail(u, delivered) ==
    /\ Len(mail) < MaxMails
    /\ mail' = Append(mail, sendWelcomeEmail(u, delivered))
    /\ UNCHANGED <<books, users, swaps, reviews, now, inflight, last, db>>

NextMail ==
    \/ \E u \in Users, delivered \in BOOLEAN : SendVerificationEmail(u, delivered)
    \/ \E u \in Users, delivered \in BOOLEAN : SendPasswordResetEmail(u, delivered)
    \/ \E u \in Users, delivered \in BOOLEAN : SendWelcomeEmail(u, delivered)

SpecMail == Init /\ [][NextMail]_vars

(***************************************************************************)
(* Properties of the swap engine.                                          *)
(***************************************************************************)
SwapBooks(swap) == {swap.requestedBook, swap.offeredBook}

SwapParties(swap) == {swap.requester, swap.owner}

(* C1: the stored status of every swap is one of the five statuses, and a  *)
(* swap whose stored status is declined, completed or cancelled keeps that *)
(* status through every later request.                                     *)
C1_TerminalStatusIsFinal ==
    /\ [](\A s \in 1..Len(swaps) : swaps[s].status \in Statuses)
    /\ [][\A s \in 1..Len(swaps) :
            swaps[s].status \in TerminalStatuses
                => s <= Len(swaps') /\ swaps'[s].status = swaps[s].status]_vars

(* A terminal swap on which a request of one of its parties is refused for *)
(* its status.                                                             *)
C1_Witness ==
    \E s \in 1..Len(swaps) :
        /\ swaps[s].status \in TerminalStatuses
        /\ \E op \in SwapOps, u \in Users : TransitionOutcome(op, u, s).code = 400

(* C2: a successful accept leaves the swap accepted and both of its books  *)
(* unavailable.                                                            *)
C2_AcceptMakesBooksUnavailable ==
    [][\A u \in Users, id \in SwapIds :
        Accept(u, id) =>
            /\ swaps'[id].status = "accepted"
            /\ ~books'[swaps[id].requestedBook].isAvailable
            /\ ~books'[swaps[id].offeredBook].isAvailable]_vars

C2_Witness ==
    /\ last.op = "accept"
    /\ last.from = "pending"
    /\ swaps[last.id].status = "accepted"

(* C3: a successful complete adds exactly 1 to swapCount of the swap's two *)
(* books and to totalSwaps of its two parties, sets completedAt, and       *)
(* leaves every other book's and user's counter as it was.                 *)
C3_CompleteCountsOnce ==
    [][\A u \in Users, id \in SwapIds :
        Complete(u, id) =>
            /\ Cardinality(SwapBooks(swaps[id])) = 2
            /\ Cardinality(SwapParties(swaps[id])) = 2
            /\ \A b \in Books :
                books'[b].swapCount = books[b].swapCount
                    + (IF b \in SwapBooks(swaps[id]) THEN 1 ELSE 0)
            /\ \A w \in Users :
                users'[w].totalSwaps = users[w].totalSwaps
                    + (IF w \in SwapParties(swaps[id]) THEN 1 ELSE 0)
            /\ swaps'[id].status = "completed"
            /\ swaps'[id].completedAt = now]_vars

C3_Witness ==
    /\ last.op = "complete"
    /\ swaps[last.id].completedAt # NoDate
    /\ \A b \in SwapBooks(swaps[last.id]) : books[b].swapCount >= 1

(* C5: a successful cancel of an accepted swap leaves it cancelled and     *)
(* both of its books available.                                            *)
C5_CancelAcceptedReleasesBooks ==
    [][\A u \in Users, id \in SwapIds :
        (Cancel(u, id) /\ swaps[id].status = "accepted") =>
            /\ swaps'[id].status = "cancelled"
            /\ \A b \in SwapBooks(swaps[id]) : books'[b].isAvailable]_vars

C5_Witness ==
    /\ last.op = "cancel"
    /\ last.from = "accepted"
    /\ swaps[last.id].status = "cancelled"

(* C6: a successful complete leaves isAvailable of every book as it was.   *)
C6_CompleteKeepsAvailability ==
    [][\A u \in Users, id \in SwapIds :
        Complete(u, id) =>
            \A b \in Books : books'[b].isAvailable = books[b].isAvailable]_vars

C6_Witness ==
    /\ last.op = "complete"
    /\ \A b \in SwapBooks(swaps[last.id]) : ~books[b].isAvailable

(* C7: no two swaps in a live status (pending or accepted) have the same   *)
(* requester, requested book and offered book, and a create request for a  *)
(* triple that has a live swap is refused.                                 *)
SameTriple(a, b) ==
    /\ a.requester = b.requester
    /\ a.requestedBook = b.requestedBook
    /\ a.offeredBook = b.offeredBook

C7_OneLiveSwapPerTriple ==
    /\ \A s, t \in 1..Len(swaps) :
        (s # t /\ SameTriple(swaps[s], swaps[t]))
            => ~(swaps[s].status \in LiveStatuses /\ swaps[t].status \in LiveStatuses)
    /\ \A s \in 1..Len(swaps) :
        swaps[s].status \in LiveStatuses
            => CreateOutcome(swaps[s].requester, swaps[s].requestedBook,
                             swaps[s].offeredBook).code # 201

(* C8: every unavailable book is referenced by a swap that is pending,     *)
(* accepted or completed.                                                  *)
C8_UnavailableBookIsHeld ==
    \A b \in Books :
        ~books[b].isAvailable =>
            \E s \in 1..Len(swaps) :
                /\ b \in SwapBooks(swaps[s])
                /\ swaps[s].status \in {"pending", "accepted", "completed"}

(* C4: once the running requests have finished, swapCount of every book    *)
(* is the number of completed swaps that reference it and totalSwaps of    *)
(* every user is the number of completed swaps the user is a party of,     *)
(* whatever the interleaving of the complete requests.                     *)
CompletedSwaps == {s \in 1..Len(swaps) : swaps[s].status = "completed"}

C4_CountersMatchCompletedSwaps ==
    Quiescent =>
        /\ \A b \in Books :
            books[b].swapCount
                = Cardinality({s \in CompletedSwaps : b \in SwapBooks(swaps[s])})
        /\ \A u \in Users :
            users[u].totalSwaps
                = Cardinality({s \in CompletedSwaps : u \in SwapParties(swaps[s])})

(***************************************************************************)
(* Properties of the review engine.                                        *)
(***************************************************************************)
ActiveReviewsOf(u) ==
    {i \in 1..Len(reviews) : reviews[i].isActive /\ reviews[i].reviewee = u}

ActiveReviewsAfter(u) ==
    {i \in 1..Len(reviews') : reviews'[i].isActive /\ reviews'[i].reviewee = u}

(* r (in tenths) is the mean of a sum of n ratings rounded to one decimal,  *)
(* a half rounded up; 0 for no rating.                                      *)
IsRoundedMean(r, sum, n) ==
    IF n = 0 THEN r = 0
    ELSE /\ 2 * (10 * sum - r * n) < n
         /\ 2 * (10 * sum - r * n) >= -n

(* C9: the stored rating and totalRatings of every user are the rounded    *)
(* mean and the number of the active reviews of which the user is the      *)
(* reviewee, after every review create, update and soft delete.            *)
C9_StoredRatingIsAggregate ==
    \A u \in Users :
        /\ users[u].totalRatings = Cardinality(ActiveReviewsOf(u))
        /\ IsRoundedMean(users[u].rating, SumRatings(reviews, ActiveReviewsOf(u)),
                         Cardinality(ActiveReviewsOf(u)))

(* C10: a soft delete of a review, by its reviewer or by an admin, leaves  *)
(* the reviewee's rating and totalRatings recomputed without that review.  *)
C10_SoftDeleteRecomputes ==
    [][\A u \in Users, id \in ReviewIds :
        (DeleteReview(u, id) \/ AdminDeleteReview(u, id)) =>
            LET e == reviews[id].reviewee IN
            /\ users'[e].totalRatings = Cardinality(ActiveReviewsAfter(e))
            /\ IsRoundedMean(users'[e].rating, SumRatings(reviews', ActiveReviewsAfter(e)),
                             Cardinality(ActiveReviewsAfter(e)))]_vars

(***************************************************************************)
(* Properties of the requests on swaps.                                    *)
(***************************************************************************)
(* The users a request of the kind op on the swap is open to. *)
Authorized(op, swap) ==
    IF op \in {"accept", "decline"} THEN {swap.owner}
    ELSE IF op = "cancel" THEN {swap.requester}
    ELSE {swap.requester, swap.owner}

(* C11: an accept or decline that is served comes from the swap's owner,   *)
(* a cancel from its requester, a complete from its requester or owner;    *)
(* the same request on an existing swap from any other user is answered    *)
(* 403 Forbidden, whatever the swap's status.                              *)
C11_OnlyAuthorizedActors ==
    /\ [](\A s \in 1..Len(swaps), op \in SwapOps, u \in Users :
            u \notin Authorized(op, swaps[s]) => TransitionOutcome(op, u, s).code = 403)
    /\ [][\A u \in Users, id \in SwapIds :
            /\ Accept(u, id) => u = swaps[id].owner
            /\ Decline(u, id) => u = swaps[id].owner
            /\ Cancel(u, id) => u = swaps[id].requester
            /\ Complete(u, id) => u \in {swaps[id].requester, swaps[id].owner}]_vars

(* A pending swap that its owner has accepted and that its requester may   *)
(* not accept, with a third user refused for every kind of request.        *)
C11_Witness ==
    /\ last.op = "accept"
    /\ last.user = swaps[last.id].owner
    /\ TransitionOutcome("decline", swaps[last.id].requester, last.id).code = 403
    /\ \E u \in Users :
        /\ u \notin SwapParties(swaps[last.id])
        /\ \A op \in SwapOps : TransitionOutcome(op, u, last.id).code = 403

(* The statuses a request of the kind op is open from. *)
SourceStatuses(op) ==
    IF op \in {"accept", "decline"} THEN {"pending"}
    ELSE IF op = "complete" THEN {"accepted"}
    ELSE {"pending", "accepted"}

(* The cases in which a request on a swap is to be rejected: the swap is   *)
(* not found, the actor is not allowed, the status is not a source status  *)
(* of the request, or (accept) the swap has expired.                       *)
RejectionCase(op, u, id) ==
    \/ id \notin 1..Len(swaps)
    \/ /\ id \in 1..Len(swaps)
       /\ \/ u \notin Authorized(op, swaps[id])
          \/ swaps[id].status \notin SourceStatuses(op)
          \/ op = "accept" /\ swaps[id].expiresAt < now

(* C12: an accept, decline, complete or cancel request in a rejection case *)
(* is answered with an error, and no step of the store serves it: the      *)
(* swaps, the books and the users are never changed by a rejected request. *)
C12_RejectedRequestChangesNothing ==
    /\ [](\A op \in SwapOps, u \in Users, id \in SwapIds :
            RejectionCase(op, u, id)
                => TransitionOutcome(op, u, id).code \in {400, 403, 404})
    /\ [][\A op \in SwapOps, u \in Users, id \in SwapIds :
            RejectionCase(op, u, id) => ~Transition(op, u, id)]_vars

(* One expired pending swap: its owner's accept is refused as expired, its *)
(* requester's accept as forbidden, its owner's complete for the status,   *)
(* and a request on the next id finds no swap.                             *)
C12_Witness ==
    /\ Len(swaps) = 1
    /\ swaps[1].status = "pending"
    /\ swaps[1].expiresAt < now
    /\ TransitionOutcome("accept", swaps[1].owner, 1)
            = Response(400, "This swap request has expired")
    /\ TransitionOutcome("accept", swaps[1].requester, 1).code = 403
    /\ TransitionOutcome("complete", swaps[1].owner, 1).code = 400
    /\ TransitionOutcome("cancel", swaps[1].requester, 2).code = 404

(* The pending swaps whose expiresAt has passed. *)
ExpiredPending == {s \in 1..Len(swaps) : isExpired(swaps[s], now)}

(* C13: an accept request on a pending swap whose expiresAt has passed is  *)
(* refused as expired and not served, so the swap stays pending and no     *)
(* book changes; the passage of time changes no swap and no book, and an   *)
(* expired swap leaves pending only by a decline or cancel request of one  *)
(* of its parties.                                                         *)
C13_ExpiredSwapStaysPending ==
    /\ [](\A s \in ExpiredPending :
            TransitionOutcome("accept", swaps[s].owner, s)
                = Response(400, "This swap request has expired"))
    /\ [][/\ \A u \in Users, s \in ExpiredPending : ~Accept(u, s)
          /\ Tick => swaps' = swaps /\ books' = books
          /\ \A s \in ExpiredPending :
                swaps'[s].status # "pending" =>
                    \/ Decline(swaps[s].owner, s)
                    \/ Cancel(swaps[s].requester, s)]_vars

(* An expired pending swap next to a swap that was accepted in time. *)
C13_Witness ==
    /\ last.op = "accept"
    /\ swaps[last.id].status = "accepted"
    /\ \E s \in ExpiredPending :
        /\ s # last.id
        /\ TransitionOutcome("accept", swaps[s].owner, s).code = 400

(***************************************************************************)
(* Properties of the writes of one transition.                             *)
(***************************************************************************)
(* The requests that are being served. *)
RunningSlots == {r \in Slots : inflight[r] # Idle}

(* C14: in every transition the new status of the swap is stored before    *)
(* any write to a book, and the writes to books come before the writes to  *)
(* users: in no state has a running request issued a book or counter write *)
(* while the stored status of its swap is not yet the new one.             *)
C14_StatusPersistedFirst ==
    \A r \in RunningSlots :
        /\ inflight[r].pc > 1
                => swaps[inflight[r].id].status = inflight[r].doc.status
        /\ \A i, j \in 1..Len(PendingWrites(inflight[r])) :
                (PendingWrites(inflight[r])[i].coll = "User"
                    /\ PendingWrites(inflight[r])[j].coll = "Book") => j < i

(* The store after the whole transition op on the swap id. *)
WholeTransition(op, id) ==
    LET doc == Mutate(op, swaps[id], now)
        ws == PreSaveWrites(doc, doc.status # swaps[id].status)
    IN /\ swaps' = [swaps EXCEPT ![id] = SaveSwap(@, doc)]
       /\ books' = ApplyBookWrites(books, ws, 1)
       /\ users' = ApplyUserWrites(users, ws, 1)

(* C15: a transition is all or nothing across the swap, its two books and  *)
(* its two users: every step that changes a swap's status, a book or a     *)
(* user's counter makes all the changes of one whole transition, so that   *)
(* every state, also one left by a failed write or a stop of the process,  *)
(* has all of them as before the transition or all as after it.            *)
C15_TransitionAllOrNothing ==
    [][(/\ last'.op # "updateBook"
        /\ \/ books' # books
           \/ users' # users
           \/ \E s \in 1..Len(swaps) : swaps'[s].status # swaps[s].status)
        => \E op \in SwapOps, id \in 1..Len(swaps) : WholeTransition(op, id)]_vars

(* C16: when a write of the hook fails during an accept, decline, complete *)
(* or cancel, the request ends with an error answer (500) and the stored   *)
(* swap is not written: it keeps the status the request read.              *)
C16_FailedWriteSurfacesError ==
    /\ [][\A r \in Slots :
            HookWriteFails(r) =>
                /\ "error" \in DOMAIN last'
                /\ last'.error.code = 500
                /\ inflight'[r] = Idle
                /\ swaps' = swaps
                /\ swaps'[inflight[r].id].status = inflight[r].from
                /\ swaps'[inflight[r].id].status # inflight[r].doc.status]_vars
    /\ []("error" \in DOMAIN last => swaps[last.id].status = last.from)

(* An accept whose second write failed: the first book is already          *)
(* unavailable, the swap still pending.                                    *)
C16_Witness ==
    /\ "error" \in DOMAIN last
    /\ last.op = "accept"
    /\ swaps[last.id].status = "pending"
    /\ ~books[swaps[last.id].requestedBook].isAvailable
    /\ books[swaps[last.id].offeredBook].isAvailable

(* C17: a decline of a pending swap and a cancel of a pending swap write   *)
(* to no book: both books of the swap keep the isAvailable they had, also  *)
(* a book that another accepted swap holds unavailable.                    *)
C17_DeclineAndCancelPendingKeepBooks ==
    [][\A u \in Users, id \in SwapIds :
        (Decline(u, id) \/ (Cancel(u, id) /\ swaps[id].status = "pending")) =>
            \A b \in Books : books'[b].isAvailable = books[b].isAvailable]_vars

(***************************************************************************)
(* Properties of the creation of swaps.                                    *)
(***************************************************************************)
(* The book id names no book, or a book that is inactive or unavailable. *)
Unusable(b) == b \notin Books \/ ~books[b].isActive \/ ~books[b].isAvailable

(* C18: a create request whose requested or offered book does not exist,   *)
(* is inactive or is unavailable is answered 400 with the message of the   *)
(* book test and creates no swap; a create that is served appends one      *)
(* pending swap and leaves every book and every other swap as they were.   *)
C18_CreateNeedsUsableBooks ==
    /\ [](\A u \in Users, rb \in BookIds, ob \in BookIds :
            (Unusable(rb) \/ Unusable(ob)) =>
                /\ CreateOutcome(u, rb, ob).code = 400
                /\ CreateOutcome(u, rb, ob).message
                        \in {"Requested book is not available",
                             "Offered book is not available"})
    /\ [][\A u \in Users, rb \in BookIds, ob \in BookIds :
            CreateSwap(u, rb, ob) =>
                /\ ~Unusable(rb) /\ ~Unusable(ob)
                /\ books' = books
                /\ Len(swaps') = Len(swaps) + 1
                /\ swaps'[Len(swaps')].status = "pending"
                /\ swaps'[Len(swaps')].requestedBook = rb
                /\ swaps'[Len(swaps')].offeredBook = ob
                /\ \A s \in 1..Len(swaps) : swaps'[s] = swaps[s]]_vars

(* A pending swap created earlier; book 1 has been deleted since and book  *)
(* 2 made unavailable, and creates naming them or no book are refused.     *)
C18_Witness ==
    /\ Len(swaps) = 1
    /\ swaps[1].status = "pending"
    /\ ~books[1].isActive
    /\ books[2].isActive /\ ~books[2].isAvailable
    /\ CreateOutcome(1, 2, 1) = Response(400, "Requested book is not available")
    /\ CreateOutcome(1, 3, 1) = Response(400, "Offered book is not available")
    /\ CreateOutcome(2, 0, 2).code = 400

(* C19: a create request that offers a book the caller does not own, a     *)
(* book without owner included, is answered 403 and creates no swap (both  *)
(* books being there, active and available).                               *)
C19_OfferingForeignBookForbidden ==
    /\ [](\A u \in Users, rb \in Books, ob \in Books :
            (~Unusable(rb) /\ ~Unusable(ob) /\ books[ob].owner # u)
                => CreateOutcome(u, rb, ob).code = 403)
    /\ [][\A u \in Users, rb \in Books, ob \in Books :
            CreateSwap(u, rb, ob) => books[ob].owner = u]_vars

(* C20: every swap, when it is created, has a requester other than its     *)
(* owner, the owner of its requested book as owner and the owner of its    *)
(* offered book as requester, hence two different books.                   *)
C20_CreatedSwapParties ==
    [][\A u \in Users, rb \in BookIds, ob \in BookIds :
        CreateSwap(u, rb, ob) =>
            LET created == swaps'[Len(swaps')] IN
            /\ Len(swaps') = Len(swaps) + 1
            /\ created.requester = u
            /\ created.requester # created.owner
            /\ created.owner \in Users
            /\ books[created.requestedBook].owner = created.owner
            /\ books[created.offeredBook].owner = created.requester
            /\ created.requestedBook # created.offeredBook]_vars

(* Two swaps created across: the requester of the second is the owner of   *)
(* the first.                                                              *)
C20_Witness ==
    /\ last.op = "create"
    /\ last.id = 2
    /\ Len(swaps) = 2
    /\ swaps[2].requester = swaps[1].owner
    /\ swaps[2].owner = swaps[1].requester

(***************************************************************************)
(* Properties of the requests on reviews.                                  *)
(***************************************************************************)
(* Swap ids a request may name: those of the model and one of no swap. *)
NamedSwapIds == {0} \cup SwapIds

(* The other party of the swap, for a party u. *)
OtherParty(swap, u) == IF u = swap.requester THEN swap.owner ELSE swap.requester

(* C21: a create-review request is answered 404 when the swap is missing,  *)
(* else 400 when the swap is not completed, else 403 when the caller is no *)
(* party of the swap, else 400 when the reviewee is not the other party;   *)
(* every review that is added is one by a party of a completed swap on the *)
(* other party, so a request that is rejected adds no review.              *)
C21_ReviewCreationChecks ==
    /\ [](\A u \in Users, id \in NamedSwapIds, e \in Users :
            LET out == CreateReviewOutcome(u, id, e) IN
            IF id \notin 1..Len(swaps)
                THEN out = Response(404, "Swap not found")
            ELSE IF swaps[id].status # "completed"
                THEN out = Response(400, "Can only review completed swaps")
            ELSE IF u \notin SwapParties(swaps[id])
                THEN out = Response(403, "Not authorized to review this swap")
            ELSE IF e # OtherParty(swaps[id], u)
                THEN out = Response(400, "Invalid reviewee for this swap")
            ELSE TRUE)
    /\ [][Len(reviews') > Len(reviews) =>
            LET created == reviews'[Len(reviews')] IN
            /\ Len(reviews') = Len(reviews) + 1
            /\ created.swap \in 1..Len(swaps)
            /\ swaps[created.swap].status = "completed"
            /\ created.reviewer \in SwapParties(swaps[created.swap])
            /\ created.reviewee = OtherParty(swaps[created.swap], created.reviewer)
            /\ created.reviewee # created.reviewer]_vars

(* A review of a completed swap has been created while the other swap is   *)
(* not completed: each of the four rejections has its case.                *)
C21_Witness ==
    /\ last.op = "createReview"
    /\ \E c \in 1..Len(swaps), a \in 1..Len(swaps) :
        /\ swaps[c].status = "completed"
        /\ swaps[a].status # "completed"
        /\ reviews[last.id].swap = c
        /\ CreateReviewOutcome(swaps[a].owner, a, swaps[a].requester).code = 400
        /\ \E u \in Users : CreateReviewOutcome(u, c, swaps[c].owner).code = 403
        /\ CreateReviewOutcome(swaps[c].owner, c, swaps[c].owner)
                = Response(400, "Invalid reviewee for this swap")
        /\ CreateReviewOutcome(swaps[c].owner, 0, swaps[c].requester).code = 404

C23_RatingIsRoundedMean ==
    last.op = "calculateUserRating" =>
        LET mine == {i \in 1..Len(reviews) :
                        reviews[i].reviewee = last.user /\ reviews[i].isActive}
            n == Cardinality(mine)
            sum == SumRatings(reviews, mine)
            avg == last.ratingData.averageRating
        IN /\ last.ratingData.totalReviews = n
           /\ n = 0 => avg = 0
           /\ n >= 1 => /\ 2 * (10 * sum - avg * n) < n
                        /\ 2 * (10 * sum - avg * n) >= -n
                        /\ (2 * ((10 * sum) % n) = n) => avg * n > 10 * sum

(* Four active reviews of one user whose mean lies halfway between two     *)
(* tenths (such as 3.25), and the result rounded up.                       *)
C23_Witness ==
    /\ last.op = "calculateUserRating"
    /\ last.ratingData.totalReviews = 4
    /\ LET sum == SumRatings(reviews, ActiveReviewsOf(last.user)) IN
        /\ (10 * sum) % 4 = 2
        /\ last.ratingData.averageRating * 4 = 10 * sum + 2

(* C24: in no state that a reader can see has a review been stored,        *)
(* changed or soft-deleted while the stored rating and totalRatings of its *)
(* reviewee are still those of the reviews before: in every state the      *)
(* stored values of every user are the aggregate of the stored reviews.    *)
C24_NoStaleRatingVisible ==
    \A u \in Users :
        LET ratingData == calculateUserRating(reviews, u) IN
        /\ users[u].rating = ratingData.averageRating
        /\ users[u].totalRatings = ratingData.totalReviews

(* C25: isAvailable and swapCount of a book, and totalSwaps, rating and    *)
(* totalRatings of a user, change only in a step of a swap transition or   *)
(* of a review create, update or delete: no other request, the update of   *)
(* a book in particular, writes any of them.                               *)
DerivedFieldsWriters ==
    SwapOps \cup {"createReview", "updateReview", "deleteReview"}

C25_DerivedFieldsWrittenByWorkflowOnly ==
    [][
        (\/ \E b \in Books :
                \/ books'[b].isAvailable # books[b].isAvailable
                \/ books'[b].swapCount # books[b].swapCount
         \/ \E u \in Users :
                \/ users'[u].totalSwaps # users[u].totalSwaps
                \/ users'[u].rating # users[u].rating
                \/ users'[u].totalRatings # users[u].totalRatings)
            => last'.op \in DerivedFieldsWriters
    ]_vars

(* C26: the requests on one swap are not serialized.  A request that has   *)
(* passed its checks is applied whatever other requests did to the swap in *)
(* the meantime: when it finishes, the stored status is the one it set,    *)
(* also when the status it read has been replaced since, so the later      *)
(* write overwrites the earlier one.                                       *)
TargetStatus(op) ==
    IF op = "accept" THEN "accepted"
    ELSE IF op = "decline" THEN "declined"
    ELSE IF op = "complete" THEN "completed"
    ELSE "cancelled"

C26_RequestsOnOneSwapRace ==
    [][
        (last' # last /\ last'.op \in SwapOps)
            => swaps'[last'.id].status = TargetStatus(last'.op)
    ]_vars

(* Two accepts of one pending swap that both passed the check: the first   *)
(* has written the books and the swap, the second has written the books    *)
(* as well and is about to write the swap again.                           *)
C26_Witness ==
    \E r \in Slots, id \in 1..Len(swaps) :
        /\ last.op = "accept" /\ last.id = id /\ last.from = "pending"
        /\ swaps[id].status = "accepted"
        /\ inflight[r] # Idle
        /\ inflight[r].op = "accept" /\ inflight[r].id = id
        /\ inflight[r].from = "pending"
        /\ inflight[r].pc > Len(PendingWrites(inflight[r]))

(* An accept and a decline or a cancel that both read the swap pending:    *)
(* the accept has been applied and the other request, past its checks, is  *)
(* about to overwrite the status.                                          *)
C26_OverwriteWitness ==
    \E r \in Slots, id \in 1..Len(swaps) :
        /\ last.op = "accept" /\ last.id = id /\ last.from = "pending"
        /\ swaps[id].status = "accepted"
        /\ inflight[r] # Idle
        /\ inflight[r].op \in {"decline", "cancel"} /\ inflight[r].id = id
        /\ inflight[r].from = "pending"

(* C27: in every reachable state a swap has completedAt set if and only if *)
(* its status is completed: no accept, decline or cancel sets completedAt  *)
(* and no request leaves a swap that is not completed with completedAt set.*)
C27_CompletedAtIffCompleted ==
    \A s \in 1..Len(swaps) :
        (swaps[s].completedAt # NoDate) <=> (swaps[s].status = "completed")

(* C28: a pending swap is accepted only while now < expiresAt, strictly:   *)
(* no swap goes from pending to accepted at a time now >= expiresAt, the   *)
(* time now = expiresAt included.                                          *)
C28_AcceptStrictlyBeforeExpiry ==
    [][
        \A s \in 1..Len(swaps) :
            (swaps[s].status = "pending" /\ swaps'[s].status = "accepted")
                => now < swaps[s].expiresAt
    ]_vars

C30_EligibleIffCreateSucceeds ==
    [][
        last'.op = "eligible" =>
            \A r \in Users :
                (/\ last'.data.code = 200
                 /\ last'.data.canReview
                 /\ last'.data.revieweeId = r)
                    <=> CreateReviewOutcome(last'.user, last'.id, r).code = 201
    ]_vars

(* Both swaps are completed and user 1 has reviewed the first and deleted  *)
(* the review; asked about the first swap, user 1 is told it is reviewed   *)
(* already, while user 2 may still review user 1 on it.                    *)
C30_Witness ==
    /\ last.op = "eligible" /\ last.id = 1 /\ last.user = 1
    /\ last.data.code = 200 /\ ~last.data.canReview
    /\ last.data.reason = "Already reviewed"
    /\ \E i \in 1..Len(reviews) : reviews[i].reviewer = 1 /\ ~reviews[i].isActive
    /\ EligibleOutcome(2, 1).code = 200
    /\ EligibleOutcome(2, 1).canReview
    /\ EligibleOutcome(2, 1).revieweeId = 1

C32_AcceptedSwapHoldsBooks ==
    \A s \in 1..Len(swaps) :
        swaps[s].status = "accepted" =>
            /\ ~books[swaps[s].requestedBook].isAvailable
            /\ ~books[swaps[s].offeredBook].isAvailable

(* The same for the steps other than a decline or a cancel of a pending    *)
(* swap: none of them releases a book that an accepted swap holds.         *)
C32_HeldWithoutPendingRelease ==
    [][
        (/\ C32_AcceptedSwapHoldsBooks
         /\ last'.op \in {"decline", "cancel"} => last'.from = "accepted")
            => C32_AcceptedSwapHoldsBooks'
    ]_vars

(* C33: in every reachable state every review references a swap that is    *)
(* completed, its reviewer and reviewee are the requester and the owner of *)
(* that swap in one of the two orders, and a swap has at most two reviews, *)
(* one per direction.                                                      *)
C33_ReviewsOfCompletedSwaps ==
    /\ \A i \in 1..Len(reviews) :
        /\ reviews[i].swap \in 1..Len(swaps)
        /\ swaps[reviews[i].swap].status = "completed"
        /\ LET swap == swaps[reviews[i].swap] IN
            \/ reviews[i].reviewer = swap.requester /\ reviews[i].reviewee = swap.owner
            \/ reviews[i].reviewer = swap.owner /\ reviews[i].reviewee = swap.requester
        /\ reviews[i].reviewer # reviews[i].reviewee
    /\ \A i, j \in 1..Len(reviews) :
        (i # j /\ reviews[i].swap = reviews[j].swap)
            => reviews[i].reviewer # reviews[j].reviewer

(* C34: once all the review requests that ran together have finished, the  *)
(* stored rating and totalRatings of every user are the aggregate of the   *)
(* active reviews of the user: no interleaving of the aggregation of one   *)
(* request and the user write of another leaves a stale value.             *)
C34_RatingSettlesToAggregate ==
    Quiescent =>
        \A u \in Users :
            /\ users[u].rating = calculateUserRating(reviews, u).averageRating
            /\ users[u].totalRatings = calculateUserRating(reviews, u).totalReviews

(* C35: a soft delete does not free the (reviewer, reviewee, swap) of a     *)
(* review: for a soft-deleted review a new create request of the same      *)
(* triple is answered 400 as already reviewed and the eligibility check    *)
(* answers "Already reviewed", and no triple has more than one review      *)
(* record, active or not.                                                  *)
C35_SoftDeleteKeepsSlot ==
    /\ \A i \in 1..Len(reviews) :
        ~reviews[i].isActive =>
            /\ CreateReviewOutcome(reviews[i].reviewer, reviews[i].swap, reviews[i].reviewee)
                    = Response(400, "You have already reviewed this swap")
            /\ EligibleOutcome(reviews[i].reviewer, reviews[i].swap)
                    = NotEligible("Already reviewed")
    /\ \A i, j \in 1..Len(reviews) :
        (/\ reviews[i].reviewer = reviews[j].reviewer
         /\ reviews[i].reviewee = reviews[j].reviewee
         /\ reviews[i].swap = reviews[j].swap) => i = j

(* A review has just been soft-deleted by its reviewer, while there is     *)
(* room for another review record.                                         *)
C35_Witness ==
    /\ last.op = "deleteReview"
    /\ ~reviews[last.id].isActive
    /\ last.user = reviews[last.id].reviewer
    /\ Len(reviews) < MaxReviews

(* C36: in every reachable state every book that a pending or accepted     *)
(* swap references is active: no book is soft-deleted while a live swap    *)
(* references it.                                                          *)
C36_LiveSwapBooksAreActive ==
    \A s \in 1..Len(swaps) :
        swaps[s].status \in {"pending", "accepted"} =>
            /\ books[swaps[s].requestedBook].isActive
            /\ books[swaps[s].offeredBook].isActive

(***************************************************************************)
(* Properties of dbConnect.                                                *)
(***************************************************************************)
Attempts == {c \in DbCallers : db.call[c] \in {"connecting", "opened", "failing"}}

(* C37: at most one connection attempt is in flight at any time.  A call   *)
(* made in state connecting starts no mongoose.connect: it waits for the   *)
(* running attempt, or returns the connection that has just opened.  A     *)
(* call made in state connected returns the connection and connects        *)
(* nothing.  After a failed attempt the state is disconnected again, and a *)
(* call made in state disconnected starts an attempt.                      *)
C37_OneConnectionAttempt ==
    /\ [](Cardinality(Attempts) <= 1)
    /\ [][\A c \in DbCallers :
            (db.call[c] \notin DbRunning /\ db'.call[c] # db.call[c] /\ db.url) =>
                /\ db.isConnected = 2 =>
                        /\ db'.call[c] = "returned"
                        /\ db'.isConnected = 2 /\ db'.readyState = db.readyState
                /\ db.isConnected = 1 =>
                        /\ db'.call[c] \in {"waiting", "returned"}
                        /\ db'.call[c] = "returned" <=> db.readyState = 1
                        /\ db'.isConnected = 1 /\ db'.readyState = db.readyState
                /\ db.isConnected = 0 =>
                        /\ db'.call[c] = "connecting"
                        /\ db'.isConnected = 1 /\ db'.readyState = 2]_vars
    /\ [][\A c \in DbCallers :
            (db.call[c] = "failing" /\ db'.call[c] # "failing") =>
                /\ db'.isConnected = 0
                /\ db'.call[c] = "threw"]_vars

(* An attempt has failed and its caller has got the error; a second call   *)
(* has started a new attempt and a third one waits for it.                 *)
C37_Witness ==
    \E a, b, c \in DbCallers :
        /\ db.call[a] = "threw"
        /\ db.call[b] = "connecting"
        /\ db.call[c] = "waiting"
        /\ db.isConnected = 1 /\ db.url

(***************************************************************************)
(* Properties of the email service.                                        *)
(***************************************************************************)
(* C38: a welcome email that is not delivered is written to the error      *)
(* console and the call returns false, it never throws; a verification or  *)
(* a password-reset email that is not delivered is written to the error    *)
(* console and the error is thrown to the caller.  A delivered email       *)
(* returns true.                                                           *)
C38_WelcomeEmailFailureSwallowed ==
    \A i \in 1..Len(mail) :
        /\ mail[i].kind = "welcome" =>
            /\ mail[i].outcome # "throw"
            /\ ~mail[i].delivered =>
                    mail[i].outcome = "false" /\ mail[i].console = "error"
        /\ mail[i].kind \in {"verification", "passwordReset"} =>
            (~mail[i].delivered =>
                    mail[i].outcome = "throw" /\ mail[i].console = "error")
        /\ mail[i].delivered <=> mail[i].outcome = "true"

(* The three emails have each failed once. *)
C38_Witness ==
    /\ Len(mail) = 3
    /\ \A i \in 1..3 : ~mail[i].delivered
    /\ \E i \in 1..3 : mail[i].kind = "welcome" /\ mail[i].outcome = "false"
    /\ \E i \in 1..3 : mail[i].kind = "verification" /\ mail[i].outcome = "throw"
    /\ \E i \in 1..3 : mail[i].kind = "passwordReset" /\ mail[i].outcome = "throw"

====
